---------------------------- MODULE Spec2Model ----------------------------
(***************************************************************************)
(* Model of the imajin image compressor core: conflict_checker.py,         *)
(* compressor.py, converter.py and the batch loop that drives them.        *)
(*                                                                         *)
(* A path is a sequence of tokens.  "/" is os.sep, "." is the extension    *)
(* separator, every other token is an opaque non-empty run of characters   *)
(* holding neither of the two.  os.path is posixpath.                      *)
(***************************************************************************)
EXTENDS Integers, Sequences, FiniteSets, TLC

VARIABLES
    probe,          \* one path derivation followed through checker and writer
    image_paths,    \* the batch: input paths, in order
    output_folder,  \* the batch: output directory
    output_format,  \* the batch: 'Keep Original' | 'WebP' | 'AVIF'
    fs,             \* the filesystem: path -> file record
    checkLog,       \* one entry per check_conflicts call of the run
    conflicts,      \* the record list the batch loop uses
    strategy,       \* the conflict resolution strategy of the batch
    pc,             \* position of the driver
    idx,            \* next input of the batch loop
    outcomes,       \* per-input outcomes of the batch loop, in order
    lastCall,       \* the latest compress_image / convert_image call in full
    report          \* the aggregate batch report

vars == <<probe, image_paths, output_folder, output_format, fs, checkLog,
          conflicts, strategy, pc, idx, outcomes, lastCall, report>>

batchVars == <<image_paths, output_folder, output_format, fs, checkLog,
               conflicts, strategy, pc, idx, outcomes, lastCall, report>>

-----------------------------------------------------------------------------
(* Bounds *)

MaxPathLen == 4
MaxFolderLen == 2
MaxInputs == 2
MaxChecks == 2
QualityMargin == 1
SizeMargin == 8

-----------------------------------------------------------------------------
(* Strings and os.path *)

SEP == "/"
DOT == "."

Strings(alphabet, n) == UNION {[1..k -> alphabet] : k \in 0..n}

\* str.rfind, 1-based; 0 when c does not occur
RFind(s, c) ==
    LET hits == {i \in 1..Len(s) : s[i] = c}
    IN  IF hits = {} THEN 0 ELSE CHOOSE i \in hits : \A j \in hits : j <= i

\* posixpath.basename: i = p.rfind(sep) + 1; return p[i:]
Basename(p) == SubSeq(p, RFind(p, SEP) + 1, Len(p))

\* posixpath.splitext (genericpath._splitext): the extension starts at the
\* last dot of the last component, leading dots of the component excluded
Splitext(p) ==
    LET sepIndex == RFind(p, SEP)
        dotIndex == RFind(p, DOT)
    IN  IF /\ dotIndex > sepIndex
           /\ \E k \in (sepIndex + 1)..(dotIndex - 1) : p[k] # DOT
        THEN <<SubSeq(p, 1, dotIndex - 1), SubSeq(p, dotIndex, Len(p))>>
        ELSE <<p, <<>> >>

\* posixpath.join(a, b) for two components
Join(a, b) ==
    IF Len(b) > 0 /\ b[1] = SEP THEN b
    ELSE IF Len(a) = 0 \/ a[Len(a)] = SEP THEN a \o b
    ELSE a \o <<SEP>> \o b

\* str.lower() on the format names in use
Lower(s) ==
    CASE s \in {"webp", "WebP", "WEBP"} -> "webp"
      [] s \in {"avif", "AVIF", "Avif"} -> "avif"
      [] s = "Keep Original" -> "keep original"
      [] s = "GIF" -> "gif"
      [] OTHER -> s

-----------------------------------------------------------------------------
(* conflict_checker.check_conflicts: output filename and predicted path *)

\* an output filename that appends the new extension to the whole basename
OutputFilename_Append(input_path, fmt) ==
    LET input_basename == Basename(input_path)
    IN  IF fmt = "Keep Original" THEN input_basename
        ELSE IF fmt = "WebP" THEN input_basename \o <<DOT, "webp">>
        ELSE IF fmt = "AVIF" THEN input_basename \o <<DOT, "avif">>
        ELSE input_basename

OutputFilename(input_path, fmt) ==
    LET input_basename == Basename(input_path)
    IN  IF fmt = "Keep Original" THEN input_basename
        ELSE IF fmt = "WebP" THEN Splitext(input_basename)[1] \o <<DOT, "webp">>
        ELSE IF fmt = "AVIF" THEN Splitext(input_basename)[1] \o <<DOT, "avif">>
        ELSE input_basename

PredictedPath(input_path, folder, fmt) ==
    Join(folder, OutputFilename(input_path, fmt))

-----------------------------------------------------------------------------
(* The paths the writers write *)

NoPath == <<"<none>">>

\* compress_image saves to output_path as given
CompressOutputPath(output_path) == output_path

\* a converter that appends the extension to the path as given
ConvertOutputPath_Append(output_path, target_format) ==
    IF Lower(target_format) = "webp" THEN output_path \o <<DOT, "webp">>
    ELSE IF Lower(target_format) = "avif" THEN output_path \o <<DOT, "avif">>
    ELSE NoPath

\* a converter that keeps the path the caller supplied
ConvertOutputPath_AsGiven(output_path, target_format) ==
    IF Lower(target_format) \in {"webp", "avif"} THEN output_path ELSE NoPath

\* convert_image: derived output path; NoPath when nothing is written
ConvertOutputPath(output_path, target_format) ==
    LET base_name == Splitext(output_path)[1]
    IN  IF Lower(target_format) = "webp" THEN base_name \o <<DOT, "webp">>
        ELSE IF Lower(target_format) = "avif" THEN base_name \o <<DOT, "avif">>
        ELSE NoPath

\* the request the batch loop builds for one input (spec 4.6, 3)
RequestOutputPath(input_path, folder) == Join(folder, Basename(input_path))

TargetOf(fmt) == IF fmt = "WebP" THEN "webp" ELSE IF fmt = "AVIF" THEN "avif" ELSE fmt

-----------------------------------------------------------------------------
(* Path derivation followed for one input: what check_conflicts predicts,   *)
(* then what the writer the batch loop dispatches to writes.                *)

PathAlphabet == {SEP, DOT, "a"}
FolderAlphabet == {SEP, DOT, "d"}
ProbeFormats == {"Keep Original", "WebP", "AVIF", "webp", "GIF"}

NoCall == [index |-> 0]

IdleBatch ==
    /\ image_paths = <<>>
    /\ output_folder = <<>>
    /\ output_format = "Keep Original"
    /\ fs = <<>>
    /\ checkLog = <<>>
    /\ conflicts = <<>>
    /\ strategy = "replace"
    /\ pc = "idle"
    /\ idx = 1
    /\ outcomes = <<>>
    /\ lastCall = NoCall
    /\ report = [successes |-> 0, failures |-> 0, skipped |-> 0]

IdleProbe ==
    [pc |-> "off", input |-> <<>>, folder |-> <<>>, fmt |-> "Keep Original",
     filename |-> NoPath, predicted |-> NoPath, written |-> NoPath]

PathInit ==
    /\ IdleBatch
    /\ \E input \in Strings(PathAlphabet, MaxPathLen),
          folder \in Strings(FolderAlphabet, MaxFolderLen),
          fmt \in ProbeFormats :
          probe = [pc |-> "init", input |-> input, folder |-> folder, fmt |-> fmt,
                   filename |-> NoPath, predicted |-> NoPath, written |-> NoPath]

\* check_conflicts, lines 32-49, for the probed input
ProbePredict ==
    /\ probe.pc = "init"
    /\ probe' = [probe EXCEPT
                   !.pc = "predicted",
                   !.filename = OutputFilename(probe.input, probe.fmt),
                   !.predicted = PredictedPath(probe.input, probe.folder, probe.fmt)]
    /\ UNCHANGED batchVars

\* 'Keep Original': compress_image(input, output_dir/basename(input))
ProbeCompress ==
    /\ probe.pc = "predicted"
    /\ probe.fmt = "Keep Original"
    /\ probe' = [probe EXCEPT
                   !.pc = "written",
                   !.written = CompressOutputPath(
                                  RequestOutputPath(probe.input, probe.folder))]
    /\ UNCHANGED batchVars

\* 'WebP'/'AVIF': convert_image(input, output_dir/basename(input), 'webp'/'avif')
ProbeConvert ==
    /\ probe.pc = "predicted"
    /\ probe.fmt \in {"WebP", "AVIF"}
    /\ probe' = [probe EXCEPT
                   !.pc = "written",
                   !.written = ConvertOutputPath(
                                  RequestOutputPath(probe.input, probe.folder),
                                  TargetOf(probe.fmt))]
    /\ UNCHANGED batchVars

PathNext == ProbePredict \/ ProbeCompress \/ ProbeConvert

PathSpec == PathInit /\ [][PathNext]_vars

-----------------------------------------------------------------------------
(* Claims on path derivation *)

Contains(s, c) == \E i \in 1..Len(s) : s[i] = c

\* C1: for every input path, output directory and output format, the path
\* check_conflicts predicts equals the path compress_image ('Keep Original')
\* or convert_image ('WebP'/'AVIF' with target 'webp'/'avif') writes for the
\* request output path output_dir/basename(input).
C1_PredictedIsWritten ==
    probe.pc = "written" => probe.written = probe.predicted

\* a conversion whose input has a directory and an extension and whose
\* output directory has a dot in its name
C1_Witness ==
    /\ probe.pc = "written"
    /\ probe.fmt = "WebP"
    /\ Contains(probe.folder, DOT)
    /\ Contains(probe.input, SEP)
    /\ probe.written = probe.predicted
    /\ probe.written # RequestOutputPath(probe.input, probe.folder)
    /\ Len(probe.written) < Len(RequestOutputPath(probe.input, probe.folder)) + 2

\* b is the last component of p
IsBasenameOf(b, p) ==
    \E k \in 0..Len(p) :
        /\ b = SubSeq(p, k + 1, Len(p))
        /\ ~Contains(b, SEP)
        /\ k = 0 \/ p[k] = SEP

\* r is b with its extension replaced by <<".", ext>>; the extension of b is
\* what follows its last dot, that dot included, unless only dots precede it
ExtensionReplaced(b, ext, r) ==
    \E n \in 0..Len(b) :
        LET stem == SubSeq(b, 1, n)
            e == SubSeq(b, n + 1, Len(b))
        IN  /\ r = stem \o <<DOT, ext>>
            /\ \/ /\ e = <<>>
                  /\ \A i \in 1..Len(b) : b[i] = DOT => \A j \in 1..i : b[j] = DOT
               \/ /\ e # <<>>
                  /\ e[1] = DOT
                  /\ ~Contains(Tail(e), DOT)
                  /\ \E j \in 1..Len(stem) : stem[j] # DOT

\* C6: the output filename check_conflicts derives is the input basename for
\* 'Keep Original', the basename with its extension replaced by .webp/.avif for
\* 'WebP'/'AVIF', and the basename unchanged for every other format string.
C6_OutputFilename ==
    probe.pc # "init" =>
        \E b \in {SubSeq(probe.input, k, Len(probe.input)) :
                     k \in 1..(Len(probe.input) + 1)} :
            /\ IsBasenameOf(b, probe.input)
            /\ probe.fmt = "WebP" => ExtensionReplaced(b, "webp", probe.filename)
            /\ probe.fmt = "AVIF" => ExtensionReplaced(b, "avif", probe.filename)
            /\ probe.fmt \notin {"WebP", "AVIF"} => probe.filename = b

\* an extension is replaced, and separately an unknown format keeps the name
C6_Witness ==
    /\ probe.pc = "predicted"
    /\ probe.fmt = "AVIF"
    /\ probe.input = <<SEP, "a", DOT, "a">>
    /\ probe.filename = <<"a", DOT, "avif">>

-----------------------------------------------------------------------------
(* The filesystem.  fs maps each existing path to a file record:            *)
(*   size      bytes on disk                                                *)
(*   mtime     modification time, > 0                                       *)
(*   statable  FALSE when os.path.getsize / getmtime raise on it            *)
(*   src       the input path whose image the bytes were encoded from,      *)
(*             NoPath for a file that was there before the run              *)
(*   whole     FALSE for what an interrupted encoder left behind            *)

Exists(f, path) == path \in DOMAIN f

FileWrite(f, path, rec) ==
    [q \in DOMAIN f \cup {path} |-> IF q = path THEN rec ELSE f[q]]

FileRemove(f, path) == [q \in DOMAIN f \ {path} |-> f[q]]

-----------------------------------------------------------------------------
(* conflict_checker.check_conflicts *)

\* a loop body that drops the conflict when the file's info cannot be read
ConflictRecordsFor_DropUnreadable(f, input_path, folder, fmt) ==
    LET output_filename == OutputFilename(input_path, fmt)
        output_path == Join(folder, output_filename)
    IN  IF Exists(f, output_path) /\ f[output_path].statable
        THEN << [input |-> input_path,
                 output |-> output_path,
                 existing_size |-> f[output_path].size,
                 existing_modified |-> f[output_path].mtime,
                 output_filename |-> output_filename] >>
        ELSE <<>>

\* a loop body that stores the input's basename under 'input'
ConflictRecordsFor_BasenameInput(f, input_path, folder, fmt) ==
    LET output_filename == OutputFilename(input_path, fmt)
        output_path == Join(folder, output_filename)
        readable == f[output_path].statable
    IN  IF Exists(f, output_path)
        THEN << [input |-> Basename(input_path),
                 output |-> output_path,
                 existing_size |-> IF readable THEN f[output_path].size ELSE 0,
                 existing_modified |-> IF readable THEN f[output_path].mtime ELSE 0,
                 output_filename |-> output_filename] >>
        ELSE <<>>

\* a loop body that stores the output filename under 'output'
ConflictRecordsFor_FilenameOutput(f, input_path, folder, fmt) ==
    LET output_filename == OutputFilename(input_path, fmt)
        output_path == Join(folder, output_filename)
        readable == f[output_path].statable
    IN  IF Exists(f, output_path)
        THEN << [input |-> input_path,
                 output |-> output_filename,
                 existing_size |-> IF readable THEN f[output_path].size ELSE 0,
                 existing_modified |-> IF readable THEN f[output_path].mtime ELSE 0,
                 output_filename |-> output_filename] >>
        ELSE <<>>

\* the loop body, lines 30-67: the records appended for one input
ConflictRecordsFor(f, input_path, folder, fmt) ==
    LET output_filename == OutputFilename(input_path, fmt)
        output_path == Join(folder, output_filename)
        readable == f[output_path].statable
    IN  IF Exists(f, output_path)
        THEN << [input |-> input_path,
                 output |-> output_path,
                 existing_size |-> IF readable THEN f[output_path].size ELSE 0,
                 existing_modified |-> IF readable THEN f[output_path].mtime ELSE 0,
                 output_filename |-> output_filename] >>
        ELSE <<>>

RECURSIVE ConflictsFrom(_, _, _, _, _)
ConflictsFrom(f, paths, folder, fmt, k) ==
    IF k > Len(paths) THEN <<>>
    ELSE ConflictRecordsFor(f, paths[k], folder, fmt)
            \o ConflictsFrom(f, paths, folder, fmt, k + 1)

\* a checker that reports each distinct input once
RECURSIVE ConflictsFrom_Dedup(_, _, _, _, _)
ConflictsFrom_Dedup(f, paths, folder, fmt, k) ==
    IF k > Len(paths) THEN <<>>
    ELSE (IF \E j \in 1..(k - 1) : paths[j] = paths[k]
          THEN <<>>
          ELSE ConflictRecordsFor(f, paths[k], folder, fmt))
            \o ConflictsFrom_Dedup(f, paths, folder, fmt, k + 1)

CheckConflicts_Dedup(paths, folder, fmt) ==
    ConflictsFrom_Dedup(fs, paths, folder, fmt, 1)

\* a checker whose conflicts list outlives the call (a shared default list)
CheckConflicts_Accumulate(paths, folder, fmt) ==
    (IF checkLog = <<>> THEN <<>> ELSE checkLog[Len(checkLog)].result)
        \o ConflictsFrom(fs, paths, folder, fmt, 1)

\* check_conflicts(image_paths, output_folder, output_format), on the
\* filesystem as it is at the call
CheckConflicts(paths, folder, fmt) == ConflictsFrom(fs, paths, folder, fmt, 1)

-----------------------------------------------------------------------------
(* What the codec and the operating system decide in one call.              *)
(*   decode           "ok" | "fail": Image.open identifies the input or not *)
(*   save             "ok"                                                  *)
(*                    "no_encoder"   no save handler is registered for the  *)
(*                                   format: KeyError before the file is    *)
(*                                   opened                                 *)
(*                    "open_denied"  the output file cannot be opened       *)
(*                    "encode_error" the encoder raises after the output    *)
(*                                   file was opened for writing            *)
(*   removes_created  whether Image.save removes a file it created when the *)
(*                    encoder raises (newer Pillow does, older does not)    *)
(*   new_size         bytes the encoder writes on success                   *)

\* quality=85 in the signatures of compress_image and convert_image
DefaultQuality == 85

OutSizes == {1, 3}

Envs ==
    {[decode |-> "fail", save |-> "ok", removes_created |-> FALSE, new_size |-> 1]}
    \cup {[decode |-> "ok", save |-> "ok", removes_created |-> FALSE, new_size |-> n] :
            n \in OutSizes}
    \cup {[decode |-> "ok", save |-> sv, removes_created |-> FALSE, new_size |-> 1] :
            sv \in {"no_encoder", "open_denied"}}
    \cup {[decode |-> "ok", save |-> "encode_error", removes_created |-> r, new_size |-> 1] :
            r \in BOOLEAN}

Zero == [num |-> 0, den |-> 1]

\* a reduction that never goes below zero
Reduction_Clamped(original_size, new_size) ==
    [num |-> IF new_size > original_size THEN 0
             ELSE (original_size - new_size) * 100,
     den |-> original_size]

\* ((original_size - new_size) / original_size) * 100, as an exact fraction
Reduction(original_size, new_size) ==
    [num |-> (original_size - new_size) * 100, den |-> original_size]

\* width and height of the input images and of the files found at output paths
InputDims == <<4, 3>>
OldDims == <<8, 8>>

\* no img.save call was made
NoSave == [called |-> FALSE]

\* a return statement of the try body; saved is the img.save call made before it
Return(success, message, reduction, f, saved) ==
    [kind |-> "return", success |-> success, message |-> message,
     reduction |-> reduction, text |-> <<>>, fs |-> f, saved |-> saved]

\* an exception leaving the try body
Raise(text, f, saved) ==
    [kind |-> "raise", success |-> FALSE, message |-> <<>>,
     reduction |-> Zero, text |-> text, fs |-> f, saved |-> saved]

\* Image.open(input_path): the decoded image; steps lists the operations
\* applied to it since
OpenImage(f, input_path) ==
    [format |-> f[input_path].format, mode |-> f[input_path].mode,
     dims |-> f[input_path].dims, exif |-> f[input_path].exif, steps |-> <<>>]

\* img.convert('RGB'): a new image of mode RGB; Image.convert copies img.info,
\* so the EXIF block stays with the image
ConvertRGB(img) ==
    [img EXCEPT !.format = "none", !.mode = "RGB", !.steps = Append(@, "convert_rgb")]

\* background = Image.new('RGB', img.size, (255, 255, 255));
\* background.paste(img, mask=img.split()[3]): a new opaque white image with
\* img blended in by its alpha channel; a new image has an empty info
PasteOnWhite(img) ==
    [format |-> "none", mode |-> "RGB", dims |-> img.dims, exif |-> {},
     steps |-> Append(img.steps, "paste_on_white")]

\* the tags every TIFF file carries in its first image file directory
IfdTags == {"ImageWidth", "ImageLength"}

\* img.getexif(): the EXIF block of img.info; for an image opened from a TIFF
\* file Pillow reads the tags of the file's first directory instead
GetExif(img) == IF img.format = "TIFF" THEN img.exif \cup IfdTags ELSE img.exif

\* the exif keyword of a save call, {} when the keyword is absent
KwExif(kwargs) == IF "exif" \in DOMAIN kwargs THEN kwargs.exif ELSE {}

\* the call img.save(path, format=format, **kwargs)
SaveCall(path, img, format, kwargs) ==
    [called |-> TRUE, path |-> path, format |-> format, mode |-> img.mode,
     steps |-> img.steps, kwargs |-> kwargs]

Quoted(path) == <<"'">> \o path \o <<"'">>

\* Image.open(input_path) followed by os.path.getsize(input_path):
\* <<>> when both succeed, else the text of the exception
OpenError(f, input_path, e) ==
    IF ~Exists(f, input_path)
    THEN <<"[Errno 2] No such file or directory: ">> \o Quoted(input_path)
    ELSE IF e.decode = "fail" \/ ~f[input_path].whole
    THEN <<"cannot identify image file ">> \o Quoted(input_path)
    ELSE IF ~f[input_path].statable
    THEN <<"[Errno 13] Permission denied: ">> \o Quoted(input_path)
    ELSE <<>>

\* img.save(output_path, format=...): the file is opened "w+b" (created, or
\* truncated when it exists) and then handed to the encoder
SaveImage(f, output_path, src, img, format, kwargs, e) ==
    CASE e.save = "no_encoder" ->
            [ok |-> FALSE, text |-> Quoted(<<format>>), fs |-> f]
      [] e.save = "open_denied" ->
            [ok |-> FALSE,
             text |-> <<"[Errno 13] Permission denied: ">> \o Quoted(output_path),
             fs |-> f]
      [] e.save = "encode_error" ->
            [ok |-> FALSE, text |-> <<"encoder error">>,
             fs |-> IF ~Exists(f, output_path) /\ e.removes_created
                    THEN f
                    ELSE FileWrite(f, output_path,
                            [size |-> 0, mtime |-> 2, statable |-> TRUE,
                             src |-> src, whole |-> FALSE, format |-> format,
                             mode |-> img.mode, dims |-> img.dims,
                             exif |-> KwExif(kwargs)])]
      [] OTHER ->
            [ok |-> TRUE, text |-> <<>>,
             fs |-> FileWrite(f, output_path,
                       [size |-> e.new_size, mtime |-> 2, statable |-> TRUE,
                        src |-> src, whole |-> TRUE, format |-> format,
                        mode |-> img.mode, dims |-> img.dims,
                             exif |-> KwExif(kwargs)])]

-----------------------------------------------------------------------------
(* compressor.compress_image *)

\* a size read after img.save has written
OriginalSize_AfterSave(before, after, input_path) ==
    IF Exists(after, input_path) THEN after[input_path].size
    ELSE before[input_path].size

\* original_size = os.path.getsize(input_path), read after Image.open and
\* before img.save: of the filesystem the call started from (before) and the
\* one img.save leaves (after), the size in the former
OriginalSize(before, after, input_path) == before[input_path].size

\* save arguments that carry the EXIF block whatever remove_metadata is
CompressSaveKwargs_KeepExif(img, quality, remove_metadata) ==
    IF GetExif(img) # {}
    THEN [quality |-> quality, optimize |-> TRUE, exif |-> GetExif(img)]
    ELSE [quality |-> quality, optimize |-> TRUE]

\* lines 29-32 and 35, 43-45: quality and optimize, and the EXIF block of the
\* opened image when remove_metadata is false and the block is not empty
CompressSaveKwargs(img, quality, remove_metadata) ==
    IF ~remove_metadata /\ GetExif(img) # {}
    THEN [quality |-> quality, optimize |-> TRUE, exif |-> GetExif(img)]
    ELSE [quality |-> quality, optimize |-> TRUE]

\* a mode step that converts every image that is not RGB
CompressMode_AlwaysRGB(img, original_format) ==
    IF img.mode # "RGB" THEN ConvertRGB(img) ELSE img

\* lines 38-39 and 48-49: RGBA becomes RGB when the format is JPEG
CompressMode(img, original_format) ==
    IF original_format = "JPEG" /\ img.mode = "RGBA" THEN ConvertRGB(img) ELSE img

\* the body of the try block, lines 19-64
CompressBody(f, input_path, output_path, quality, remove_metadata, e) ==
    IF OpenError(f, input_path, e) # <<>>
    THEN Raise(OpenError(f, input_path, e), f, NoSave)
    ELSE
        LET opened == OpenImage(f, input_path)
            original_format == opened.format
            save_kwargs == CompressSaveKwargs(opened, quality, remove_metadata)
            img == CompressMode(opened, original_format)
            saved == SaveCall(output_path, img, original_format, save_kwargs)
            sv == SaveImage(f, output_path, input_path, img, original_format,
                            save_kwargs, e)
            original_size == OriginalSize(f, sv.fs, input_path)
        IN  IF ~sv.ok THEN Raise(sv.text, sv.fs, saved)
            ELSE IF original_size = 0
            THEN Raise(<<"division by zero">>, sv.fs, saved)
            ELSE Return(TRUE, <<"Compressed: ">>,
                        Reduction(original_size, sv.fs[output_path].size),
                        sv.fs, saved)

\* a handler that lets the exception through
CompressExcept_Reraise(b) ==
    IF b.kind = "raise"
    THEN [raised |-> TRUE, success |-> FALSE, message |-> <<>>, reduction |-> Zero]
    ELSE [raised |-> FALSE, success |-> b.success, message |-> b.message,
          reduction |-> b.reduction]

\* lines 66-67: except Exception as e: return False, f"Error: {str(e)}", 0.0
CompressExcept(b) ==
    IF b.kind = "raise"
    THEN [raised |-> FALSE, success |-> FALSE,
          message |-> <<"Error: ">> \o b.text, reduction |-> Zero]
    ELSE [raised |-> FALSE, success |-> b.success, message |-> b.message,
          reduction |-> b.reduction]

\* compress_image(input_path, output_path): the returned tuple and the
\* filesystem the call leaves
CompressImage(f, input_path, output_path, quality, remove_metadata, e) ==
    LET b == CompressBody(f, input_path, output_path, quality, remove_metadata, e)
    IN  [ret |-> CompressExcept(b), fs |-> b.fs, saved |-> b.saved]

-----------------------------------------------------------------------------
(* converter.convert_image *)

\* 'cannot write mode' in str(avif_error).lower()
SaysCannotWriteMode(text) == \E i \in 1..Len(text) : text[i] = "cannot write mode"

\* a test for 'avif' that does not lower-case the text first
SaysAvif_CaseSensitive(text) == \E i \in 1..Len(text) : text[i] = "avif"

\* 'avif' in str(avif_error).lower()
SaysAvif(text) == \E i \in 1..Len(text) : Lower(text[i]) = "avif"

AvifPluginMessage ==
    <<"AVIF plugin not installed. Install with: pip install pillow-avif-plugin">>

\* a mode policy that leaves every RGBA source as it is, whatever the target
ConvertMode_KeepRGBA(img, target_format) ==
    IF img.mode \in {"RGBA", "LA", "P"}
    THEN IF img.mode = "RGBA" THEN img ELSE ConvertRGB(img)
    ELSE IF img.mode # "RGB" THEN ConvertRGB(img) ELSE img

\* lines 27-41: RGBA stays for WebP and is pasted on white otherwise; LA, P
\* and every other mode but RGB go through img.convert('RGB')
ConvertMode(img, target_format) ==
    IF img.mode \in {"RGBA", "LA", "P"}
    THEN IF Lower(target_format) = "webp" /\ img.mode = "RGBA"
         THEN img
         ELSE IF img.mode = "RGBA" THEN PasteOnWhite(img) ELSE ConvertRGB(img)
    ELSE IF img.mode # "RGB" THEN ConvertRGB(img) ELSE img

\* save arguments that carry the EXIF block to every target
ConvertSaveKwargs_AnyTarget(img, target_format, quality, remove_metadata) ==
    IF ~remove_metadata /\ GetExif(img) # {}
    THEN [quality |-> quality, method |-> 6, exif |-> GetExif(img)]
    ELSE [quality |-> quality, method |-> 6]

\* a converter that takes every target for a supported one
TargetSupported_Any(target_format) == TRUE

\* lines 58, 61 and 71: the targets that have a save branch
TargetSupported(target_format) == Lower(target_format) \in {"webp", "avif"}

\* lines 44-53: quality and method, and for WebP the EXIF block of the image
\* as it is after the mode step, when remove_metadata is false and the block
\* is not empty
ConvertSaveKwargs(img, target_format, quality, remove_metadata) ==
    IF ~remove_metadata /\ GetExif(img) # {} /\ Lower(target_format) = "webp"
    THEN [quality |-> quality, method |-> 6, exif |-> GetExif(img)]
    ELSE [quality |-> quality, method |-> 6]

\* the body of the try block, lines 20-85
ConvertBody(f, input_path, output_path, target_format, quality, remove_metadata, e) ==
    IF OpenError(f, input_path, e) # <<>>
    THEN Raise(OpenError(f, input_path, e), f, NoSave)
    ELSE
        LET opened == OpenImage(f, input_path)
            img == ConvertMode(opened, target_format)
            save_kwargs == ConvertSaveKwargs(img, target_format, quality,
                                             remove_metadata)
            derived == ConvertOutputPath(output_path, target_format)
            format == IF Lower(target_format) = "webp" THEN "WEBP" ELSE "AVIF"
            saved == SaveCall(derived, img, format, save_kwargs)
            sv == SaveImage(f, derived, input_path, img, format, save_kwargs, e)
            original_size == OriginalSize(f, sv.fs, input_path)
        IN  IF ~TargetSupported(target_format)
            THEN Return(FALSE, <<"Unsupported target format: ", target_format>>,
                        Zero, f, NoSave)
            ELSE IF ~sv.ok /\ Lower(target_format) = "avif"
                    /\ (SaysCannotWriteMode(sv.text) \/ SaysAvif(sv.text))
            THEN Return(FALSE, AvifPluginMessage, Zero, sv.fs, saved)
            ELSE IF ~sv.ok THEN Raise(sv.text, sv.fs, saved)
            ELSE IF original_size = 0
            THEN Raise(<<"division by zero">>, sv.fs, saved)
            ELSE Return(TRUE, <<"Converted to ">>,
                        Reduction(original_size, sv.fs[derived].size),
                        sv.fs, saved)

\* a handler that lets the exception through
ConvertExcept_Reraise(b) ==
    IF b.kind = "raise"
    THEN [raised |-> TRUE, success |-> FALSE, message |-> <<>>, reduction |-> Zero]
    ELSE [raised |-> FALSE, success |-> b.success, message |-> b.message,
          reduction |-> b.reduction]

\* lines 87-88: except Exception as e: return False, f"Error: {str(e)}", 0.0
ConvertExcept(b) ==
    IF b.kind = "raise"
    THEN [raised |-> FALSE, success |-> FALSE,
          message |-> <<"Error: ">> \o b.text, reduction |-> Zero]
    ELSE [raised |-> FALSE, success |-> b.success, message |-> b.message,
          reduction |-> b.reduction]

\* convert_image(input_path, output_path, target_format): the returned tuple
\* and the filesystem the call leaves
ConvertImage(f, input_path, output_path, target_format, quality, remove_metadata, e) ==
    LET b == ConvertBody(f, input_path, output_path, target_format, quality,
                         remove_metadata, e)
    IN  [ret |-> ConvertExcept(b), fs |-> b.fs, saved |-> b.saved]

-----------------------------------------------------------------------------
(* Single calls of compress_image and convert_image, over the arguments a   *)
(* caller can pass and the images Image.open can return.                    *)

\* the range validate_quality clamps to
QualityMin == 1
QualityMax == 100

\* qualities inside, at the edges of and outside the range
Qualities ==
    ((QualityMin - 1 - QualityMargin)..QualityMin) \cup {DefaultQuality}
        \cup (QualityMax..(QualityMax + QualityMargin))

\* the format and mode of a decoded image: JPEG decodes to L, RGB or CMYK,
\* PNG to L, LA, P, RGB or RGBA
DecodedImages ==
    {[format |-> "JPEG", mode |-> m] : m \in {"L", "RGB", "CMYK"}}
    \cup {[format |-> "PNG", mode |-> m] : m \in {"L", "LA", "P", "RGB", "RGBA"}}

ExifChoices == {{}, {"Orientation"}}

TargetFormats == {"webp", "WEBP", "WebP", "avif", "AVIF", "gif", "jpeg"}

CallInput == <<"in", SEP, "a", DOT, "img">>

\* an input that carries the extension convert_image derives for WebP, so
\* that a conversion can write onto its own input; the decoder goes by
\* content, not by name
CallInPlaceInput == <<"in", SEP, "a", DOT, "webp">>

CallInputs == {CallInput, CallInPlaceInput}

CallOutputs ==
    { <<"out", SEP, "a", DOT, "jpg">>, <<"out", SEP, "a">>,
      <<"out", SEP, "a", DOT, "WEBP">> }

\* the paths a call on output_path can write
CallTargets(output_path) ==
    {CompressOutputPath(output_path)}
        \cup {ConvertOutputPath(output_path, t) : t \in {"webp", "avif"}}

CallInit ==
    /\ image_paths = <<>>
    /\ output_folder = <<>>
    /\ output_format = "Keep Original"
    /\ checkLog = <<>>
    /\ conflicts = <<>>
    /\ strategy = "replace"
    /\ pc = "idle"
    /\ idx = 1
    /\ outcomes = <<>>
    /\ lastCall = NoCall
    /\ report = [successes |-> 0, failures |-> 0, skipped |-> 0]
    /\ \E image \in DecodedImages, exif \in ExifChoices,
          input_path \in CallInputs, quality \in Qualities,
          remove_metadata \in BOOLEAN, old \in BOOLEAN :
       \E output_path \in CallOutputs \cup {input_path} :
          /\ probe = [pc |-> "args", input |-> input_path,
                      output_path |-> output_path, quality |-> quality,
                      remove_metadata |-> remove_metadata]
          /\ fs = [q \in {input_path}
                         \cup (IF old THEN CallTargets(output_path) ELSE {}) |->
                      IF q = input_path
                      THEN [size |-> 2, mtime |-> 1, statable |-> TRUE,
                            src |-> NoPath, whole |-> TRUE,
                            format |-> image.format, mode |-> image.mode,
                            dims |-> InputDims, exif |-> exif]
                      ELSE [size |-> 4, mtime |-> 1, statable |-> TRUE,
                            src |-> NoPath, whole |-> TRUE, format |-> "JPEG",
                            mode |-> "RGB", dims |-> OldDims, exif |-> {}]]

\* the state a call leaves: its arguments, its result, the img.save call it
\* made and the filesystem it started from
Returned(op, target_format, e, call) ==
    [pc |-> "returned", op |-> op, input |-> probe.input,
     output_path |-> probe.output_path, target_format |-> target_format,
     quality |-> probe.quality, remove_metadata |-> probe.remove_metadata,
     env |-> e, ret |-> call.ret, saved |-> call.saved, fsBefore |-> fs]

\* compress_image(input, output_path, quality, remove_metadata)
CallCompress ==
    /\ probe.pc = "args"
    /\ \E e \in Envs :
          LET call == CompressImage(fs, probe.input, probe.output_path,
                                    probe.quality, probe.remove_metadata, e)
          IN  /\ probe' = Returned("compress", "none", e, call)
              /\ fs' = call.fs
    /\ UNCHANGED <<image_paths, output_folder, output_format, checkLog,
                   conflicts, strategy, pc, idx, outcomes, lastCall, report>>

\* convert_image(input, output_path, target_format, quality, remove_metadata)
CallConvert ==
    /\ probe.pc = "args"
    /\ \E e \in Envs, target_format \in TargetFormats :
          LET call == ConvertImage(fs, probe.input, probe.output_path,
                                   target_format, probe.quality,
                                   probe.remove_metadata, e)
          IN  /\ probe' = Returned("convert", target_format, e, call)
              /\ fs' = call.fs
    /\ UNCHANGED <<image_paths, output_folder, output_format, checkLog,
                   conflicts, strategy, pc, idx, outcomes, lastCall, report>>

CallNext == CallCompress \/ CallConvert

CallSpec == CallInit /\ [][CallNext]_vars

-----------------------------------------------------------------------------
(* utils.metadata: has_exif_data and strip_metadata *)

\* has_exif_data(image_path), lines 14-19: False when the file cannot be
\* opened, else whether img.getexif() has entries
HasExifData(f, image_path, decode) ==
    IF ~Exists(f, image_path) \/ decode = "fail" \/ ~f[image_path].whole
    THEN FALSE
    ELSE GetExif(OpenImage(f, image_path)) # {}

\* lines 66-68: Image.new(img.mode, img.size) filled with the pixels of img
NewImageLike(img) ==
    [format |-> "none", mode |-> img.mode, dims |-> img.dims, exif |-> {},
     steps |-> Append(img.steps, "new")]

\* strip_metadata(image_path, output_path), lines 59-75: the returned pair and
\* the filesystem the call leaves
StripMetadata(f, image_path, output_path, e) ==
    IF ~Exists(f, image_path)
    THEN [success |-> FALSE,
          message |-> <<"Error removing metadata: ",
                        "[Errno 2] No such file or directory: ">>
                         \o Quoted(image_path),
          fs |-> f]
    ELSE IF e.decode = "fail" \/ ~f[image_path].whole
    THEN [success |-> FALSE,
          message |-> <<"Error removing metadata: ", "cannot identify image file ">>
                         \o Quoted(image_path),
          fs |-> f]
    ELSE
        LET img == OpenImage(f, image_path)
            img_format == img.format
            image_without_exif == NewImageLike(img)
            sv == SaveImage(f, output_path, image_path, image_without_exif,
                            img_format, <<>>, e)
        IN  IF sv.ok
            THEN [success |-> TRUE, message |-> <<"Metadata removed successfully">>,
                  fs |-> sv.fs]
            ELSE [success |-> FALSE,
                  message |-> <<"Error removing metadata: ">> \o sv.text,
                  fs |-> sv.fs]

\* the images strip_metadata is tried on
StripImages ==
    DecodedImages
        \cup {[format |-> "TIFF", mode |-> m] : m \in {"L", "RGB", "RGBA"}}

StripInput == <<"in", SEP, "a", DOT, "img">>

StripOutputs == { <<"out", SEP, "a", DOT, "img">>, <<"out", SEP, "a">>, StripInput }

StripInit ==
    /\ image_paths = <<>>
    /\ output_folder = <<>>
    /\ output_format = "Keep Original"
    /\ checkLog = <<>>
    /\ conflicts = <<>>
    /\ strategy = "replace"
    /\ pc = "idle"
    /\ idx = 1
    /\ outcomes = <<>>
    /\ lastCall = NoCall
    /\ report = [successes |-> 0, failures |-> 0, skipped |-> 0]
    /\ \E image \in StripImages, exif \in ExifChoices,
          output_path \in StripOutputs, old \in BOOLEAN :
          /\ probe = [pc |-> "args", input |-> StripInput,
                      output_path |-> output_path]
          /\ fs = [q \in {StripInput} \cup (IF old THEN {output_path} ELSE {}) |->
                      IF q = StripInput
                      THEN [size |-> 2, mtime |-> 1, statable |-> TRUE,
                            src |-> NoPath, whole |-> TRUE,
                            format |-> image.format, mode |-> image.mode,
                            dims |-> InputDims, exif |-> exif]
                      ELSE [size |-> 4, mtime |-> 1, statable |-> TRUE,
                            src |-> NoPath, whole |-> TRUE, format |-> "JPEG",
                            mode |-> "RGB", dims |-> OldDims, exif |-> {"Make"}]]

\* has_exif_data(input), then strip_metadata(input, output_path)
CallStrip ==
    /\ probe.pc = "args"
    /\ \E e \in Envs :
          LET call == StripMetadata(fs, probe.input, probe.output_path, e)
          IN  /\ probe' = [pc |-> "stripped", input |-> probe.input,
                           output_path |-> probe.output_path, env |-> e,
                           hadExif |-> HasExifData(fs, probe.input, e.decode),
                           success |-> call.success, message |-> call.message,
                           fsBefore |-> fs]
              /\ fs' = call.fs
    /\ UNCHANGED <<image_paths, output_folder, output_format, checkLog,
                   conflicts, strategy, pc, idx, outcomes, lastCall, report>>

\* has_exif_data(output_path) after the call
CallHasExif ==
    /\ probe.pc = "stripped"
    /\ \E decode \in {"ok", "fail"} :
          probe' = [pc |-> "queried", input |-> probe.input,
                    output_path |-> probe.output_path, env |-> probe.env,
                    hadExif |-> probe.hadExif, success |-> probe.success,
                    message |-> probe.message, fsBefore |-> probe.fsBefore,
                    decode |-> decode,
                    hasExif |-> HasExifData(fs, probe.output_path, decode)]
    /\ UNCHANGED batchVars

StripNext == CallStrip \/ CallHasExif

StripSpec == StripInit /\ [][StripNext]_vars

-----------------------------------------------------------------------------
(* conflict_checker.format_file_size and compressor.validate_quality *)

KiB == 1024
MiB == 1024 * 1024
GiB == 1024 * 1024 * 1024

\* size_bytes * 10 / unit rounded to the nearest integer, ties to even, as
\* the format specification .1f rounds; unit is a multiple of 1024, and the
\* product is taken in two parts to stay within 32 bits
RoundedTenths(size_bytes, unit) ==
    LET q == size_bytes \div unit
        r == size_bytes % unit
        low == (r % 1024) * 10
        top == (r \div 1024) * 10 + (low \div 1024)
        v == unit \div 1024
        floor == q * 10 + (top \div v)
        rest == (top % v) * 1024 + (low % 1024)
    IN  IF rest * 2 > unit \/ (rest * 2 = unit /\ floor % 2 = 1)
        THEN floor + 1
        ELSE floor

\* f"{x:.1f} {unit}": integer part, one decimal digit, unit
OneDecimal(tenths, unit) ==
    [whole |-> tenths \div 10, decimals |-> <<tenths % 10>>, unit |-> unit]

\* a formatter whose thresholds belong to the smaller unit
FormatFileSize_Inclusive(size_bytes) ==
    IF size_bytes <= KiB
    THEN [whole |-> size_bytes, decimals |-> <<>>, unit |-> "B"]
    ELSE IF size_bytes <= MiB
    THEN OneDecimal(RoundedTenths(size_bytes, KiB), "KB")
    ELSE IF size_bytes <= GiB
    THEN OneDecimal(RoundedTenths(size_bytes, MiB), "MB")
    ELSE OneDecimal(RoundedTenths(size_bytes, GiB), "GB")

\* format_file_size(size_bytes), lines 82-89
FormatFileSize(size_bytes) ==
    IF size_bytes < KiB
    THEN [whole |-> size_bytes, decimals |-> <<>>, unit |-> "B"]
    ELSE IF size_bytes < MiB
    THEN OneDecimal(RoundedTenths(size_bytes, KiB), "KB")
    ELSE IF size_bytes < GiB
    THEN OneDecimal(RoundedTenths(size_bytes, MiB), "MB")
    ELSE OneDecimal(RoundedTenths(size_bytes, GiB), "GB")

\* numbers: an int n, a float of value tenths / 10, an infinity, a NaN
IntNumber(n) == [kind |-> "int", n |-> n]
FloatNumber(tenths) == [kind |-> "float", n |-> tenths]
Infinities == {[kind |-> "inf", n |-> 1], [kind |-> "inf", n |-> -1]}
NaN == [kind |-> "nan", n |-> 0]

\* int(q): an int is itself, a finite float is truncated towards zero,
\* an infinity raises OverflowError and a NaN raises ValueError
IntOf(q) ==
    CASE q.kind = "int" -> [raised |-> FALSE, value |-> q.n]
      [] q.kind = "float" ->
            [raised |-> FALSE,
             value |-> IF q.n >= 0 THEN q.n \div 10 ELSE 0 - ((0 - q.n) \div 10)]
      [] q.kind = "inf" ->
            [raised |-> TRUE, value |-> "OverflowError"]
      [] OTHER -> [raised |-> TRUE, value |-> "ValueError"]

Min(a, b) == IF a < b THEN a ELSE b
Max(a, b) == IF a > b THEN a ELSE b

\* validate_quality(quality), line 80: max(1, min(100, int(quality)))
ValidateQuality(quality) ==
    LET i == IntOf(quality)
    IN  IF i.raised THEN i
        ELSE [raised |-> FALSE, value |-> Max(QualityMin, Min(QualityMax, i.value))]

\* sizes at zero, around the three thresholds, and on rounding ties
SizeSamples ==
    (0..SizeMargin)
        \cup UNION {((t - SizeMargin)..(t + SizeMargin)) : t \in {KiB, MiB, GiB}}
        \cup {1280, 1536, 1664, 1048575 - 51, 1310720, 1073741824 - 53687091}

QualitySamples ==
    {IntNumber(n) :
        n \in (QualityMin - 1 - QualityMargin)..(QualityMax + QualityMargin)}
    \cup {FloatNumber(t) : t \in {-15, -5, 5, 9, 10, 15, 855, 999, 1000, 1005, 1010}}
    \cup Infinities \cup {NaN}

FormatInit ==
    /\ IdleBatch
    /\ \/ \E size_bytes \in SizeSamples :
             probe = [pc |-> "arg", fn |-> "format_file_size", arg |-> size_bytes]
       \/ \E quality \in QualitySamples :
             probe = [pc |-> "arg", fn |-> "validate_quality", arg |-> quality]

ApplyFormatFileSize ==
    /\ probe.pc = "arg"
    /\ probe.fn = "format_file_size"
    /\ probe' = [pc |-> "result", fn |-> probe.fn, arg |-> probe.arg,
                 result |-> FormatFileSize(probe.arg)]
    /\ UNCHANGED batchVars

\* validate_quality(q), and validate_quality applied to its own result
ApplyValidateQuality ==
    /\ probe.pc = "arg"
    /\ probe.fn = "validate_quality"
    /\ LET once == ValidateQuality(probe.arg)
       IN  probe' = [pc |-> "result", fn |-> probe.fn, arg |-> probe.arg,
                     result |-> once,
                     again |-> IF once.raised THEN once
                               ELSE ValidateQuality(IntNumber(once.value))]
    /\ UNCHANGED batchVars

FormatNext == ApplyFormatFileSize \/ ApplyValidateQuality

FormatSpec == FormatInit /\ [][FormatNext]_vars

-----------------------------------------------------------------------------
(* ConflictDialog: the three strategy radio buttons form one exclusive      *)
(* QButtonGroup.                                                            *)

Radios == {"replace", "skip", "rename"}

\* ConflictDialog.get_strategy
GetStrategy(checked) ==
    IF checked = "skip" THEN "skip"
    ELSE IF checked = "rename" THEN "auto_rename"
    ELSE "replace"

\* the strategies a batch can be run under: what get_strategy can answer
Strategies == {GetStrategy(checked) : checked \in Radios}

-----------------------------------------------------------------------------
(* The batch loop (spec 4.6) *)

\* base_N.ext for the output path base.ext
Renamed(path, n) ==
    LET sp == Splitext(path)
    IN  sp[1] \o <<"_" \o ToString(n)>> \o sp[2]

\* AutoRename: _N appended before the extension, N the first unused integer
\* starting at 1
AutoRename(f, path) ==
    LET n == CHOOSE k \in 1..(Cardinality(DOMAIN f) + 1) :
                /\ ~Exists(f, Renamed(path, k))
                /\ \A j \in 1..(k - 1) : Exists(f, Renamed(path, j))
    IN  Renamed(path, n)

ConflictsOf(input_path) ==
    {k \in 1..Len(conflicts) : conflicts[k].input = input_path}

HasConflict(input_path) == ConflictsOf(input_path) # {}

\* the output path of the request for input_path under the active strategy
StrategyOutputPath(input_path) ==
    IF HasConflict(input_path) /\ strategy = "auto_rename"
    THEN AutoRename(fs, conflicts[CHOOSE k \in ConflictsOf(input_path) : TRUE].output)
    ELSE RequestOutputPath(input_path, output_folder)

FileAt(f, path) == IF Exists(f, path) THEN <<f[path]>> ELSE <<>>

-----------------------------------------------------------------------------
(* One run of the driver: check_conflicts, the choice of a strategy when    *)
(* there are conflicts, then the batch loop.                                *)

InputPool ==
    { <<"in", SEP, "a", DOT, "jpg">>,
      <<"in", SEP, "a", DOT, "png">>,
      <<"out", SEP, "a", DOT, "jpg">> }

OutputFolder == <<"out">>

BatchFormats == {"Keep Original", "WebP", "AVIF"}

Range(seq) == {seq[k] : k \in 1..Len(seq)}

InputFile(path) ==
    [size |-> 2, mtime |-> 1, statable |-> TRUE, src |-> NoPath, whole |-> TRUE,
     format |-> IF path[Len(path)] = "png" THEN "PNG" ELSE "JPEG",
     mode |-> "RGB", dims |-> InputDims, exif |-> {}]

OldFile(readable) ==
    [size |-> 4, mtime |-> 1, statable |-> readable, src |-> NoPath, whole |-> TRUE,
     format |-> "JPEG", mode |-> "RGB", dims |-> OldDims, exif |-> {}]

\* the inputs, and for each predicted output path p: nothing (pre[p] = 0),
\* a file at p (1), or files at p and at its first rename target (2)
InitialFs(paths, pre, readable) ==
    LET old == {q \in DOMAIN pre : pre[q] >= 1}
                  \cup {Renamed(q, 1) : q \in {r \in DOMAIN pre : pre[r] = 2}}
    IN  [q \in Range(paths) \cup old |->
            IF q \in Range(paths) THEN InputFile(q) ELSE OldFile(readable)]

Init ==
    /\ probe = IdleProbe
    /\ output_folder = OutputFolder
    /\ \E paths \in UNION {[1..n -> InputPool] : n \in 1..MaxInputs},
          fmt \in BatchFormats,
          readable \in BOOLEAN :
          \E pre \in [{PredictedPath(paths[k], OutputFolder, fmt) : k \in 1..Len(paths)}
                        -> 0..2] :
              /\ image_paths = paths
              /\ output_format = fmt
              /\ fs = InitialFs(paths, pre, readable)
    /\ checkLog = <<>>
    /\ conflicts = <<>>
    /\ strategy = "replace"
    /\ pc = "start"
    /\ idx = 1
    /\ outcomes = <<>>
    /\ lastCall = NoCall
    /\ report = [successes |-> 0, failures |-> 0, skipped |-> 0]

\* a call of check_conflicts on the batch
CheckConflictsCall ==
    /\ pc = "start"
    /\ Len(checkLog) < MaxChecks
    /\ fs' = fs
    /\ conflicts' = CheckConflicts(image_paths, output_folder, output_format)
    /\ checkLog' = Append(checkLog,
                      [fsBefore |-> fs, result |-> conflicts', fsAfter |-> fs'])
    /\ UNCHANGED <<probe, image_paths, output_folder, output_format, strategy, pc, idx, outcomes,
                   lastCall, report>>

\* another process removes a file between two checks
ExternalRemove ==
    /\ pc = "start"
    /\ Len(checkLog) = 1
    /\ \E q \in DOMAIN fs \ Range(image_paths) : fs' = FileRemove(fs, q)
    /\ UNCHANGED <<probe, image_paths, output_folder, output_format, checkLog,
                   conflicts, strategy, pc, idx, outcomes, lastCall, report>>

Checked ==
    /\ pc = "start"
    /\ checkLog # <<>>
    /\ checkLog[Len(checkLog)].fsAfter = fs

\* no conflicts: the batch starts at once, under the default strategy
StartBatch ==
    /\ Checked
    /\ conflicts = <<>>
    /\ pc' = "run"
    /\ checkLog' = <<checkLog[Len(checkLog)]>>
    /\ UNCHANGED <<probe, image_paths, output_folder, output_format, fs,
                   conflicts, strategy, idx, outcomes,
                   lastCall, report>>

\* conflicts: the driver supplies the strategy after conflict review (spec 6)
\* and the batch starts
ChooseStrategy ==
    /\ Checked
    /\ conflicts # <<>>
    /\ \E s \in Strategies : strategy' = s
    /\ pc' = "run"
    /\ checkLog' = <<checkLog[Len(checkLog)]>>
    /\ UNCHANGED <<probe, image_paths, output_folder, output_format, fs,
                   conflicts, idx, outcomes,
                   lastCall, report>>

\* conflicts: the user cancels at conflict review
Cancel ==
    /\ Checked
    /\ conflicts # <<>>
    /\ pc' = "cancelled"
    /\ UNCHANGED <<probe, image_paths, output_folder, output_format, fs,
                   checkLog, conflicts, strategy, idx, outcomes,
                   lastCall, report>>

AfterStep(raised) ==
    IF raised THEN "crashed" ELSE IF idx = Len(image_paths) THEN "done" ELSE "run"

Counted(ret) ==
    IF ret.success
    THEN [report EXCEPT !.successes = @ + 1]
    ELSE [report EXCEPT !.failures = @ + 1]

\* Skip: the input is omitted and a skipped outcome recorded
SkipInput ==
    /\ pc = "run"
    /\ idx <= Len(image_paths)
    /\ HasConflict(image_paths[idx])
    /\ strategy = "skip"
    /\ outcomes' = Append(outcomes,
                      [input |-> image_paths[idx], kind |-> "skipped", op |-> "none",
                       wrote |-> NoPath, success |-> FALSE])
    /\ report' = [report EXCEPT !.skipped = @ + 1]
    /\ idx' = idx + 1
    /\ pc' = AfterStep(FALSE)
    /\ UNCHANGED <<probe, image_paths, output_folder, output_format, fs, checkLog,
                   conflicts, strategy, lastCall>>

Dispatched ==
    /\ pc = "run"
    /\ idx <= Len(image_paths)
    /\ ~(HasConflict(image_paths[idx]) /\ strategy = "skip")

\* mode Compress: the request goes to compress_image
DispatchCompress ==
    /\ Dispatched
    /\ output_format = "Keep Original"
    /\ \E e \in Envs :
        LET input_path == image_paths[idx]
            output_path == StrategyOutputPath(input_path)
            wrote == CompressOutputPath(output_path)
            call == CompressImage(fs, input_path, output_path, DefaultQuality,
                                 FALSE, e)
        IN  /\ fs' = call.fs
            /\ outcomes' = Append(outcomes,
                              [input |-> input_path, kind |-> "dispatched",
                               op |-> "compress", wrote |-> wrote,
                               success |-> call.ret.success])
            /\ lastCall' = [index |-> idx, input |-> input_path, op |-> "compress",
                            output_path |-> output_path, wrote |-> wrote,
                            seen |-> DOMAIN fs,
                            fileBefore |-> FileAt(fs, wrote),
                            fileAfter |-> FileAt(call.fs, wrote),
                            ret |-> call.ret]
            /\ report' = IF call.ret.raised THEN report ELSE Counted(call.ret)
            /\ pc' = AfterStep(call.ret.raised)
    /\ idx' = idx + 1
    /\ UNCHANGED <<probe, image_paths, output_folder, output_format, checkLog,
                   conflicts, strategy>>

\* mode Convert: the request goes to convert_image
DispatchConvert ==
    /\ Dispatched
    /\ output_format \in {"WebP", "AVIF"}
    /\ \E e \in Envs :
        LET input_path == image_paths[idx]
            output_path == StrategyOutputPath(input_path)
            target_format == TargetOf(output_format)
            wrote == ConvertOutputPath(output_path, target_format)
            call == ConvertImage(fs, input_path, output_path, target_format,
                                DefaultQuality, FALSE, e)
        IN  /\ fs' = call.fs
            /\ outcomes' = Append(outcomes,
                              [input |-> input_path, kind |-> "dispatched",
                               op |-> "convert", wrote |-> wrote,
                               success |-> call.ret.success])
            /\ lastCall' = [index |-> idx, input |-> input_path, op |-> "convert",
                            output_path |-> output_path, wrote |-> wrote,
                            seen |-> DOMAIN fs,
                            fileBefore |-> FileAt(fs, wrote),
                            fileAfter |-> FileAt(call.fs, wrote),
                            ret |-> call.ret]
            /\ report' = IF call.ret.raised THEN report ELSE Counted(call.ret)
            /\ pc' = AfterStep(call.ret.raised)
    /\ idx' = idx + 1
    /\ UNCHANGED <<probe, image_paths, output_folder, output_format, checkLog,
                   conflicts, strategy>>

Next ==
    \/ CheckConflictsCall
    \/ ExternalRemove
    \/ StartBatch
    \/ ChooseStrategy
    \/ Cancel
    \/ SkipInput
    \/ DispatchCompress
    \/ DispatchConvert

Spec == Init /\ [][Next]_vars

-----------------------------------------------------------------------------
(* Two calls of compress_image / convert_image running concurrently on one  *)
(* filesystem. A call takes three steps: Image.open with getsize of the     *)
(* input, img.save, and getsize of the output with the return.              *)

Workers == {1, 2}

ParInputs == << <<"in", SEP, "a", DOT, "jpg">>, <<"in", SEP, "b", DOT, "png">> >>

\* request output paths: the second call is given a path with the stem of the
\* first call's, or a path with a stem of its own
ParOutputs ==
    << { <<"out", SEP, "a", DOT, "jpg">> },
       { <<"out", SEP, "a", DOT, "png">>, <<"out", SEP, "b", DOT, "png">> } >>

\* the operation of a call: compress_image, or convert_image to a target
ParOps == {"none", "webp", "avif"}

\* the path a call writes
WrittenPath(w) ==
    IF w.target = "none" THEN CompressOutputPath(w.output_path)
    ELSE ConvertOutputPath(w.output_path, w.target)

\* the call as one step on filesystem f
RunAlone(w, f) ==
    IF w.target = "none"
    THEN CompressImage(f, w.input, w.output_path, DefaultQuality, FALSE, w.env)
    ELSE ConvertImage(f, w.input, w.output_path, w.target, DefaultQuality,
                      FALSE, w.env)

\* the except clause of the call's function
Handled(w, b) == IF w.target = "none" THEN CompressExcept(b) ELSE ConvertExcept(b)

NoResult == [raised |-> FALSE, success |-> FALSE, message |-> <<>>, reduction |-> Zero]

ParInit ==
    /\ image_paths = <<>>
    /\ output_folder = <<>>
    /\ output_format = "Keep Original"
    /\ checkLog = <<>>
    /\ conflicts = <<>>
    /\ strategy = "replace"
    /\ pc = "idle"
    /\ idx = 1
    /\ outcomes = <<>>
    /\ lastCall = NoCall
    /\ report = [successes |-> 0, failures |-> 0, skipped |-> 0]
    /\ fs = [q \in {ParInputs[i] : i \in Workers} |-> InputFile(q)]
    /\ \E env \in [Workers -> Envs], target \in [Workers -> ParOps],
          out \in [Workers -> UNION {ParOutputs[i] : i \in Workers}] :
          /\ \A i \in Workers : out[i] \in ParOutputs[i]
          /\ probe = [pc |-> "par", fs0 |-> fs, lastSaved |-> NoPath,
                      w |-> [i \in Workers |->
                                [pc |-> "start", input |-> ParInputs[i],
                                 output_path |-> out[i], target |-> target[i],
                                 env |-> env[i], original_size |-> 0,
                                 ret |-> NoResult]]]

\* the end of a call: its result is what the except clause makes of b
Finish(i, b) ==
    probe' = [probe EXCEPT !.w[i].pc = "done", !.w[i].ret = Handled(probe.w[i], b)]

\* compressor.py 20-23, converter.py 21-24: Image.open and getsize of the input
WorkerOpen(i) ==
    /\ probe.pc = "par"
    /\ probe.w[i].pc = "start"
    /\ LET w == probe.w[i]
           err == OpenError(fs, w.input, w.env)
       IN  IF err # <<>>
           THEN Finish(i, Raise(err, fs, NoSave))
           ELSE probe' = [probe EXCEPT !.w[i].pc = "opened",
                                       !.w[i].original_size = fs[w.input].size]
    /\ UNCHANGED batchVars

\* the path whose size the call reads after its save (compressor.py 54,
\* converter.py 75): the path the call itself wrote
StatPath_LastSaved(w, lastSaved) == lastSaved

StatPath(w, lastSaved) == WrittenPath(w)

\* compressor.py 28-51, converter.py 26-72: the mode step, the save arguments
\* and img.save, which reads the pixels of the input and writes the output
WorkerSave(i) ==
    /\ probe.pc = "par"
    /\ probe.w[i].pc = "opened"
    /\ LET w == probe.w[i]
           opened == OpenImage(fs, w.input)
           img == IF w.target = "none" THEN CompressMode(opened, opened.format)
                  ELSE ConvertMode(opened, w.target)
           save_kwargs ==
               IF w.target = "none"
               THEN CompressSaveKwargs(opened, DefaultQuality, FALSE)
               ELSE ConvertSaveKwargs(img, w.target, DefaultQuality, FALSE)
           format == IF w.target = "none" THEN opened.format
                     ELSE IF Lower(w.target) = "webp" THEN "WEBP" ELSE "AVIF"
           path == WrittenPath(w)
           saved == SaveCall(path, img, format, save_kwargs)
           sv == SaveImage(fs, path, w.input, img, format, save_kwargs, w.env)
       IN  IF w.target # "none" /\ ~TargetSupported(w.target)
           THEN /\ Finish(i, Return(FALSE, <<"Unsupported target format: ", w.target>>,
                                    Zero, fs, NoSave))
                /\ fs' = fs
           ELSE /\ fs' = sv.fs
                /\ IF sv.ok
                   THEN probe' = [probe EXCEPT !.w[i].pc = "saved",
                                               !.lastSaved = path]
                   ELSE IF w.target # "none" /\ Lower(w.target) = "avif"
                           /\ (SaysCannotWriteMode(sv.text) \/ SaysAvif(sv.text))
                   THEN Finish(i, Return(FALSE, AvifPluginMessage, Zero, sv.fs, saved))
                   ELSE Finish(i, Raise(sv.text, sv.fs, saved))
    /\ UNCHANGED <<image_paths, output_folder, output_format, checkLog,
                   conflicts, strategy, pc, idx, outcomes, lastCall, report>>

\* compressor.py 54-64, converter.py 75-85: getsize of the output, the
\* reduction and the return
WorkerStat(i) ==
    /\ probe.pc = "par"
    /\ probe.w[i].pc = "saved"
    /\ LET w == probe.w[i]
           path == StatPath(w, probe.lastSaved)
       IN  IF ~Exists(fs, path)
           THEN Finish(i, Raise(<<"[Errno 2] No such file or directory: ">>
                                    \o Quoted(path), fs, NoSave))
           ELSE IF w.original_size = 0
           THEN Finish(i, Raise(<<"division by zero">>, fs, NoSave))
           ELSE Finish(i, Return(TRUE,
                                 IF w.target = "none" THEN <<"Compressed: ">>
                                 ELSE <<"Converted to ">>,
                                 Reduction(w.original_size, fs[path].size),
                                 fs, NoSave))
    /\ UNCHANGED batchVars

ParNext == \E i \in Workers : WorkerOpen(i) \/ WorkerSave(i) \/ WorkerStat(i)

ParSpec == ParInit /\ [][ParNext]_vars

-----------------------------------------------------------------------------
(* ConflictDialog: construction from the records of check_conflicts *)

\* format_modified_date(timestamp): the local time of the timestamp under
\* the pattern "%b %d, %Y %H:%M", "Unknown" when the conversion raises
FormatModifiedDate(timestamp) ==
    IF timestamp \in Nat
    THEN <<"%b %d, %Y %H:%M", timestamp>>
    ELSE <<"Unknown">>

\* the names the module conflict_dialog binds: its imports and its class
ModuleNames ==
    {"QDialog", "QVBoxLayout", "QHBoxLayout", "QLabel", "QRadioButton",
     "QCheckBox", "QPushButton", "QScrollArea", "QWidget", "QButtonGroup",
     "Qt", "Theme", "format_file_size", "format_modified_date",
     "ConflictDialog"}

\* _create_conflict_item(conflict): the arguments of conflict.get are
\* evaluated before the call, the default os.path.basename(...) included, and
\* the name os resolves among the module's names or raises NameError
CreateConflictItem(conflict) ==
    IF "os" \notin ModuleNames
    THEN [raised |-> TRUE, error |-> "NameError: name 'os' is not defined"]
    ELSE [raised |-> FALSE,
          filename |-> IF "output_filename" \in DOMAIN conflict
                       THEN conflict.output_filename
                       ELSE Basename(conflict.output),
          modified |-> FormatModifiedDate(conflict.existing_modified),
          size |-> FormatFileSize(conflict.existing_size)]

\* create_conflict_list: one item per record, in order; the first exception
\* leaves the loop and the constructor
RECURSIVE ConflictItems(_, _)
ConflictItems(records, k) ==
    IF k > Len(records) THEN [raised |-> FALSE, items |-> <<>>]
    ELSE LET item == CreateConflictItem(records[k])
             rest == ConflictItems(records, k + 1)
         IN  IF item.raised THEN [raised |-> TRUE, error |-> item.error]
             ELSE IF rest.raised THEN rest
             ELSE [raised |-> FALSE, items |-> <<item>> \o rest.items]

\* the record lists check_conflicts returns for the batches of the model
DialogInit ==
    /\ IdleBatch
    /\ \E paths \in UNION {[1..n -> InputPool] : n \in 1..MaxInputs},
          fmt \in BatchFormats,
          readable \in BOOLEAN :
          \E pre \in [{PredictedPath(paths[k], OutputFolder, fmt) : k \in 1..Len(paths)}
                        -> 0..2] :
              probe = [pc |-> "records",
                       conflicts |-> ConflictsFrom(InitialFs(paths, pre, readable),
                                                   paths, OutputFolder, fmt, 1)]

\* ConflictDialog(conflicts): __init__ and init_ui; the replace radio is
\* checked at construction
ConstructDialog ==
    /\ probe.pc = "records"
    /\ LET built == ConflictItems(probe.conflicts, 1)
       IN  probe' = IF built.raised
                    THEN [pc |-> "raised", conflicts |-> probe.conflicts,
                          error |-> built.error]
                    ELSE [pc |-> "shown", conflicts |-> probe.conflicts,
                          items |-> built.items, checked |-> "replace"]
    /\ UNCHANGED batchVars

\* the user checks one radio of the exclusive group
CheckRadio ==
    /\ probe.pc = "shown"
    /\ \E radio \in Radios \ {probe.checked} :
          probe' = [probe EXCEPT !.checked = radio]
    /\ UNCHANGED batchVars

\* dialog.get_strategy()
CallGetStrategy ==
    /\ probe.pc = "shown"
    /\ probe' = [pc |-> "answered", conflicts |-> probe.conflicts,
                 items |-> probe.items, checked |-> probe.checked,
                 strategy |-> GetStrategy(probe.checked)]
    /\ UNCHANGED batchVars

DialogNext == ConstructDialog \/ CheckRadio \/ CallGetStrategy

DialogSpec == DialogInit /\ [][DialogNext]_vars

-----------------------------------------------------------------------------
(* QualityPresetsWidget: slider, preset buttons, Custom button *)

PRESET_WEB == 75
PRESET_BALANCED == 85
PRESET_HIGH == 95

SliderMinimum == 1
SliderMaximum == 100

\* the preset buttons: the name is the button text before the colon
PresetButtons ==
    {[name |-> "Web", value |-> PRESET_WEB],
     [name |-> "Balanced", value |-> PRESET_BALANCED],
     [name |-> "High", value |-> PRESET_HIGH]}

NoAnimation == [running |-> FALSE, start |-> 0, end |-> 0]

\* _on_slider_changed(value): the preset that follows from the value
PresetOfValue(value) ==
    IF value = PRESET_WEB THEN "Web"
    ELSE IF value = PRESET_BALANCED THEN "Balanced"
    ELSE IF value = PRESET_HIGH THEN "High"
    ELSE "Custom"

\* QSlider.setValue(value): the value is forced into [minimum, maximum];
\* valueChanged, and with it _on_slider_changed, fires only when the value
\* of the slider changes
SliderSetValue(w, value) ==
    LET bounded == Max(SliderMinimum, Min(SliderMaximum, value))
    IN  IF bounded = w.value THEN w
        ELSE [w EXCEPT !.value = bounded,
                       !.current_preset = PresetOfValue(bounded)]

\* __init__: current_preset "Balanced", the slider set to 85 before
\* valueChanged is connected, no animation
WidgetInit ==
    /\ IdleBatch
    /\ probe = [pc |-> "widget", value |-> PRESET_BALANCED,
                current_preset |-> "Balanced", animation |-> NoAnimation]

\* the user moves the slider, or set_value(value) is called
SliderMoved ==
    /\ probe.pc = "widget"
    /\ \E value \in (SliderMinimum - QualityMargin)..(SliderMaximum + QualityMargin) :
          probe' = SliderSetValue(probe, value)
    /\ UNCHANGED batchVars

\* _on_preset_clicked(value, preset_name): the preset is recorded at once and
\* an animation from the present value to the preset value is started
PresetClicked ==
    /\ probe.pc = "widget"
    /\ \E button \in PresetButtons :
          probe' = [probe EXCEPT
                       !.current_preset = button.name,
                       !.animation = [running |-> TRUE, start |-> probe.value,
                                      end |-> button.value]]
    /\ UNCHANGED batchVars

\* _on_custom_clicked(): the preset is recorded, the slider is left alone
CustomClicked ==
    /\ probe.pc = "widget"
    /\ probe' = [probe EXCEPT !.current_preset = "Custom"]
    /\ UNCHANGED batchVars

\* one tick of the running animation: the slider is set to a value between
\* the last animated value and the end value; at the end value the animation
\* stops
AnimationTick ==
    /\ probe.pc = "widget"
    /\ probe.animation.running
    /\ \E value \in Min(probe.animation.start, probe.animation.end)
                      ..Max(probe.animation.start, probe.animation.end) :
          LET w == SliderSetValue(probe, value)
          IN  probe' = [w EXCEPT !.animation =
                           IF value = probe.animation.end THEN NoAnimation
                           ELSE [running |-> TRUE, start |-> value,
                                 end |-> probe.animation.end]]
    /\ UNCHANGED batchVars

WidgetNext == SliderMoved \/ PresetClicked \/ CustomClicked \/ AnimationTick

WidgetSpec == WidgetInit /\ [][WidgetNext]_vars




-----------------------------------------------------------------------------
(* Claims on check_conflicts *)

\* the inputs of the batch whose predicted output path exists in f
ConflictingInputs(f) ==
    {k \in 1..Len(image_paths) :
        Exists(f, PredictedPath(image_paths[k], output_folder, output_format))}

\* the j-th smallest element of the set of integers K
Nth(K, j) == CHOOSE k \in K : Cardinality({x \in K : x < k}) = j - 1

\* C2: check_conflicts returns the input sequence filtered by "predicted output
\* path exists at check time": one record per input occurrence whose predicted
\* path exists, none for the others, in input order, duplicates kept.
C2_FilteredInOrder ==
    \A c \in 1..Len(checkLog) :
        LET K == ConflictingInputs(checkLog[c].fsBefore)
            result == checkLog[c].result
        IN  /\ Len(result) = Cardinality(K)
            /\ \A j \in 1..Len(result) :
                  /\ result[j].input = image_paths[Nth(K, j)]
                  /\ result[j].output =
                        PredictedPath(image_paths[Nth(K, j)], output_folder, output_format)

\* the same input twice, both occurrences reported
C2_Witness ==
    /\ checkLog # <<>>
    /\ Len(image_paths) = 2
    /\ Len(checkLog[1].result) = 2
    /\ checkLog[1].result[1].input = checkLog[1].result[2].input

-----------------------------------------------------------------------------
(* Claims on the batch *)

Processed == 1..Len(outcomes)

\* the inputs that have a ConflictRecord: those whose predicted output path
\* existed when check_conflicts ran
Conflicting == ConflictingInputs(checkLog[1].fsBefore)

\* C3: under the Skip strategy every input that has a ConflictRecord is not
\* dispatched and is counted as skipped, the file that was at its predicted
\* output path is left as it was by the whole batch, and successes + failures
\* + skipped equals the number of inputs.
C3_SkipLeavesConflicts ==
    (strategy = "skip" /\ pc \in {"run", "done"}) =>
        /\ \A i \in Processed :
              i \in Conflicting =>
                  /\ outcomes[i].kind = "skipped"
                  /\ outcomes[i].op = "none"
        /\ \A i \in Conflicting :
              LET predicted ==
                      PredictedPath(image_paths[i], output_folder, output_format)
              IN  FileAt(fs, predicted) = FileAt(checkLog[1].fsBefore, predicted)
        /\ report.skipped = Cardinality(Processed \cap Conflicting)
        /\ report.successes + report.failures + report.skipped = Len(outcomes)
        /\ pc = "done" => Len(outcomes) = Len(image_paths)

\* two inputs, one of them conflicting: 1 success, 0 failures, 1 skipped
C3_Witness ==
    /\ strategy = "skip"
    /\ pc = "done"
    /\ Len(image_paths) = 2
    /\ Cardinality(Conflicting) = 1
    /\ report = [successes |-> 1, failures |-> 0, skipped |-> 1]

\* C4: under the AutoRename strategy the output path of a conflicting input is
\* base_N.ext, N the smallest integer >= 1 for which base_N.ext does not exist;
\* the chosen path never names a file that exists when it is chosen.
C4_AutoRenameFirstUnused ==
    (strategy = "auto_rename" /\ pc \in {"run", "done"}) =>
        /\ \A i \in Processed \cap Conflicting : outcomes[i].kind = "dispatched"
        /\ lastCall.index \in Conflicting =>
              LET predicted ==
                      PredictedPath(lastCall.input, output_folder, output_format)
              IN  /\ lastCall.wrote = lastCall.output_path
                  /\ lastCall.wrote \notin lastCall.seen
                  /\ \E n \in 1..(Cardinality(lastCall.seen) + 1) :
                        /\ lastCall.wrote = Renamed(predicted, n)
                        /\ \A j \in 1..(n - 1) :
                              Renamed(predicted, j) \in lastCall.seen

\* base.ext and base_1.ext exist, base_2.ext does not: base_2.ext is chosen
C4_Witness ==
    /\ strategy = "auto_rename"
    /\ lastCall.index \in Conflicting
    /\ LET predicted ==
               PredictedPath(lastCall.input, output_folder, output_format)
       IN  /\ predicted \in lastCall.seen
           /\ Renamed(predicted, 1) \in lastCall.seen
           /\ lastCall.wrote = Renamed(predicted, 2)
           /\ lastCall.ret.success

\* C8: whenever compress_image or convert_image returns success = false, the
\* call has created or left nothing at its output path: the path holds what it
\* held before the call.
C8_NoFileOnFailure ==
    (lastCall.index > 0 /\ ~lastCall.ret.success) =>
        lastCall.fileAfter = lastCall.fileBefore

\* C9: compress_image and convert_image never raise, and every failure result
\* has success = false, a non-empty message and reduction 0.0.
C9_TotalFailureShape ==
    lastCall.index > 0 =>
        /\ ~lastCall.ret.raised
        /\ ~lastCall.ret.success =>
              /\ lastCall.ret.message # <<>>
              /\ lastCall.ret.reduction = Zero

\* a convert_image call on an input that cannot be decoded
C9_Witness ==
    /\ lastCall.index > 0
    /\ lastCall.op = "convert"
    /\ ~lastCall.ret.success
    /\ lastCall.ret.message[1] = "Error: "
    /\ lastCall.ret.message[2] = "cannot identify image file "

\* the guards of SkipInput, DispatchCompress and DispatchConvert: one of the
\* three can take the next input
LoopCanStep ==
    /\ pc = "run"
    /\ idx <= Len(image_paths)
    /\ \/ HasConflict(image_paths[idx]) /\ strategy = "skip"
       \/ output_format \in {"Keep Original", "WebP", "AVIF"}

\* C10: a failure result does not stop the batch: the loop goes on to the next
\* input, every input that Skip does not omit is dispatched once to the one
\* operation its mode names, every input yields one outcome, outcomes are in
\* input order, and each failure is counted once in the report.
C10_FailureDoesNotStopBatch ==
    /\ pc # "crashed"
    /\ pc \in {"run", "done"} =>
          /\ idx = Len(outcomes) + 1
          /\ \A i \in Processed :
                /\ outcomes[i].input = image_paths[i]
                /\ outcomes[i].kind = "skipped" <=>
                      (HasConflict(image_paths[i]) /\ strategy = "skip")
                /\ outcomes[i].kind = "dispatched" =>
                      outcomes[i].op = IF output_format = "Keep Original"
                                       THEN "compress" ELSE "convert"
          /\ report.failures =
                Cardinality({i \in Processed : /\ outcomes[i].kind = "dispatched"
                                               /\ ~outcomes[i].success})
          /\ report.successes =
                Cardinality({i \in Processed : /\ outcomes[i].kind = "dispatched"
                                               /\ outcomes[i].success})
    /\ pc = "run" => LoopCanStep
    /\ pc = "done" => Len(outcomes) = Len(image_paths)

\* the first input fails, the second is still processed and succeeds
C10_Witness ==
    /\ pc = "done"
    /\ Len(outcomes) = 2
    /\ outcomes[1].kind = "dispatched" /\ ~outcomes[1].success
    /\ outcomes[2].kind = "dispatched" /\ outcomes[2].success
    /\ report = [successes |-> 1, failures |-> 1, skipped |-> 0]

-----------------------------------------------------------------------------
(* Single calls: quality, reduction, mode, path and metadata *)

Clamp(x, lo, hi) == IF x < lo THEN lo ELSE IF x > hi THEN hi ELSE x

\* C11: for every call of compress_image or convert_image the quality handed
\* to the encoder is clamp(quality, 1, 100): an out-of-range quality is
\* corrected before encoding, neither passed through nor rejected.
C11_QualityClamped ==
    (probe.pc = "returned" /\ probe.saved.called) =>
        probe.saved.kwargs.quality = Clamp(probe.quality, QualityMin, QualityMax)

\* C12: for every successful compress_image or convert_image call the returned
\* reduction is (original_size - output_size) / original_size * 100 over the
\* on-disk sizes of the input before the call and of the file written; it is
\* negative, not clamped, when the output is the larger file.
C12_ReductionFromDiskSizes ==
    (probe.pc = "returned" /\ probe.ret.success) =>
        LET original_size == probe.fsBefore[probe.input].size
            output_size == fs[probe.saved.path].size
            r == probe.ret.reduction
        IN  /\ probe.saved.called
            /\ r.den > 0
            /\ r.num * original_size = (original_size - output_size) * 100 * r.den
            /\ output_size > original_size => r.num < 0

\* a conversion whose output is larger than its input: reduction -50
C12_Witness ==
    /\ probe.pc = "returned"
    /\ probe.op = "convert"
    /\ probe.ret.success
    /\ fs[probe.saved.path].size > probe.fsBefore[probe.input].size
    /\ probe.ret.reduction.num = -50 * probe.ret.reduction.den

\* the mode and the EXIF block of the source image of the call
SourceMode == probe.fsBefore[probe.input].mode
SourceExif == probe.fsBefore[probe.input].exif

\* the call was a convert_image call that reached img.save
ConvertSaved ==
    /\ probe.pc = "returned"
    /\ probe.op = "convert"
    /\ probe.saved.called

\* C13: in convert_image with target WebP, in any letter case, a source image
\* with an alpha channel (mode RGBA or LA) is encoded as it is: same mode,
\* alpha kept, no mode conversion.
C13_WebPAlphaAsIs ==
    (ConvertSaved /\ Lower(probe.target_format) = "webp"
        /\ SourceMode \in {"RGBA", "LA"}) =>
        /\ probe.saved.mode = SourceMode
        /\ probe.saved.steps = <<>>

\* C14: in convert_image, a source with alpha (RGBA or LA) and target AVIF, and
\* a palette source (P) with any target, is composited onto opaque white with
\* its own alpha channel as the mask, not merely converted to RGB.
C14_CompositedOnWhite ==
    (ConvertSaved
        /\ \/ Lower(probe.target_format) = "avif" /\ SourceMode \in {"RGBA", "LA"}
           \/ SourceMode = "P") =>
        probe.saved.steps = <<"paste_on_white">>

\* r is the path p with the extension of its last component replaced
PathExtensionReplaced(p, ext, r) ==
    \E k \in 0..Len(p) :
        /\ IsBasenameOf(SubSeq(p, k + 1, Len(p)), p)
        /\ \E b \in {SubSeq(r, k + 1, Len(r))} :
              /\ SubSeq(r, 1, k) = SubSeq(p, 1, k)
              /\ ExtensionReplaced(SubSeq(p, k + 1, Len(p)), ext, b)

\* C15: convert_image writes to the request's output_path with its extension
\* replaced by .webp or .avif, whatever extension the caller supplied and
\* whatever the letter case of target_format; it writes nowhere else, and the
\* sizes behind the result are those of that path.
C15_DerivedOutputPath ==
    (ConvertSaved /\ Lower(probe.target_format) \in {"webp", "avif"}) =>
        /\ PathExtensionReplaced(probe.output_path, Lower(probe.target_format),
                                 probe.saved.path)
        /\ \A q \in (DOMAIN fs \cup DOMAIN probe.fsBefore) \ {probe.saved.path} :
              /\ q \in DOMAIN fs /\ q \in DOMAIN probe.fsBefore
              /\ fs[q] = probe.fsBefore[q]
        /\ probe.ret.success =>
              /\ probe.saved.path \in DOMAIN fs
              /\ probe.ret.reduction =
                    Reduction(probe.fsBefore[probe.input].size,
                              fs[probe.saved.path].size)

\* target 'WEBP' and an output path without extension: out/a.webp is written,
\* and the file that was at out/a stays as it was
C15_Witness ==
    /\ ConvertSaved
    /\ probe.target_format = "WEBP"
    /\ probe.output_path = <<"out", SEP, "a">>
    /\ probe.ret.success
    /\ probe.saved.path = <<"out", SEP, "a", DOT, "webp">>
    /\ fs[probe.saved.path].whole
    /\ fs[probe.saved.path].src = probe.input
    /\ probe.output_path \in DOMAIN fs
    /\ fs[probe.output_path] = probe.fsBefore[probe.output_path]

\* C16: convert_image passes EXIF to the encoder if and only if the target is
\* WebP, remove_metadata is false and the source carries a non-empty EXIF
\* block; for target AVIF nothing is passed, whatever remove_metadata is.
C16_ExifOnlyForWebP ==
    ConvertSaved =>
        /\ "exif" \in DOMAIN probe.saved.kwargs <=>
              /\ Lower(probe.target_format) = "webp"
              /\ ~probe.remove_metadata
              /\ SourceExif # {}
        /\ "exif" \in DOMAIN probe.saved.kwargs =>
              probe.saved.kwargs.exif = SourceExif
        /\ Lower(probe.target_format) = "avif" =>
              "exif" \notin DOMAIN probe.saved.kwargs

\* a palette source with EXIF converted to WebP with remove_metadata false:
\* the block goes to the encoder although the image went through convert
C16_Witness ==
    /\ ConvertSaved
    /\ probe.target_format = "WebP"
    /\ ~probe.remove_metadata
    /\ SourceMode = "P"
    /\ SourceExif # {}
    /\ probe.saved.kwargs.exif = SourceExif
    /\ probe.ret.success
    /\ fs[probe.saved.path].exif = SourceExif

\* C17: convert_image with target AVIF where no AVIF encoder is installed
\* returns success = false, reduction 0.0 and a message that names the missing
\* encoder and is not the generic 'Error: ...' message.
C17_AvifMissingEncoder ==
    (ConvertSaved /\ Lower(probe.target_format) = "avif"
        /\ probe.env.save = "no_encoder") =>
        /\ ~probe.ret.raised
        /\ ~probe.ret.success
        /\ probe.ret.reduction = Zero
        /\ probe.ret.message = AvifPluginMessage
        /\ probe.ret.message[1] # "Error: "

\* target 'AVIF' in upper case, no encoder: the plug-in message, no file
C17_Witness ==
    /\ ConvertSaved
    /\ probe.target_format = "AVIF"
    /\ probe.env.save = "no_encoder"
    /\ probe.ret.message = AvifPluginMessage
    /\ probe.saved.path \notin DOMAIN fs

\* C18: for every target_format other than webp/avif in any letter case,
\* convert_image returns a failure result (success = false, reduction 0.0) and
\* writes to no path.
C18_UnsupportedTargetNoWrite ==
    (probe.pc = "returned" /\ probe.op = "convert"
        /\ Lower(probe.target_format) \notin {"webp", "avif"}) =>
        /\ ~probe.ret.raised
        /\ ~probe.ret.success
        /\ probe.ret.reduction = Zero
        /\ probe.ret.message # <<>>
        /\ ~probe.saved.called
        /\ fs = probe.fsBefore

\* target 'gif' on a decodable input with a file already at the output path
C18_Witness ==
    /\ probe.pc = "returned"
    /\ probe.op = "convert"
    /\ probe.target_format = "gif"
    /\ probe.env.decode = "ok"
    /\ probe.ret.message = <<"Unsupported target format: ", "gif">>
    /\ probe.output_path \in DOMAIN fs
    /\ fs = probe.fsBefore

\* the call was a compress_image call that reached img.save
CompressSaved ==
    /\ probe.pc = "returned"
    /\ probe.op = "compress"
    /\ probe.saved.called

AlphaModes == {"RGBA", "LA"}

\* C19: compress_image re-encodes in the format the input was decoded in, with
\* optimize enabled, and converts to RGB before encoding exactly when the
\* format is JPEG and the mode has an alpha channel, for remove_metadata true
\* and false alike.
C19_SameFormatOptimize ==
    CompressSaved =>
        /\ probe.saved.format = probe.fsBefore[probe.input].format
        /\ probe.saved.kwargs.optimize = TRUE
        /\ probe.saved.path = probe.output_path
        /\ IF probe.saved.format = "JPEG" /\ SourceMode \in AlphaModes
           THEN probe.saved.steps = <<"convert_rgb">> /\ probe.saved.mode = "RGB"
           ELSE probe.saved.steps = <<>> /\ probe.saved.mode = SourceMode

\* an RGBA PNG compressed with remove_metadata true: saved as PNG, still RGBA
C19_Witness ==
    /\ CompressSaved
    /\ probe.remove_metadata
    /\ probe.saved.format = "PNG"
    /\ SourceMode = "RGBA"
    /\ probe.saved.mode = "RGBA"
    /\ probe.ret.success
    /\ fs[probe.output_path].format = "PNG"

\* C20: compress_image passes an EXIF snapshot to the encoder if and only if
\* remove_metadata is false and the input carries non-empty EXIF; the snapshot
\* is the block of the image as opened; with remove_metadata true no metadata
\* argument is passed; an input without metadata is not an error.
C20_ExifSnapshot ==
    CompressSaved =>
        /\ "exif" \in DOMAIN probe.saved.kwargs <=>
              (~probe.remove_metadata /\ SourceExif # {})
        /\ "exif" \in DOMAIN probe.saved.kwargs =>
              probe.saved.kwargs.exif = SourceExif
        /\ (SourceExif = {} /\ probe.env.save = "ok") => probe.ret.success

\* remove_metadata false and EXIF present: the block is passed and written
C20_Witness ==
    /\ CompressSaved
    /\ ~probe.remove_metadata
    /\ SourceExif # {}
    /\ probe.saved.kwargs.exif = SourceExif
    /\ probe.ret.success
    /\ fs[probe.output_path].exif = SourceExif

-----------------------------------------------------------------------------
(* Metadata round trip *)

\* C21: for every input on which has_exif_data is true and strip_metadata
\* succeeds, has_exif_data on the output path is false, and the output has the
\* colour mode, the dimensions and the encoded format of the input.
C21_StripRoundTrip ==
    (probe.pc = "queried" /\ probe.hadExif /\ probe.success) =>
        /\ ~probe.hasExif
        /\ fs[probe.output_path].mode = probe.fsBefore[probe.input].mode
        /\ fs[probe.output_path].dims = probe.fsBefore[probe.input].dims
        /\ fs[probe.output_path].format = probe.fsBefore[probe.input].format

-----------------------------------------------------------------------------
(* Concurrent calls *)

AllDone == probe.pc = "par" /\ \A i \in Workers : probe.w[i].pc = "done"

\* the paths a call reads or writes
Touched(w) == {w.input, WrittenPath(w)}

\* the calls run one after another in the given order, from the initial
\* filesystem, return what the concurrent calls returned and leave the files
\* the concurrent calls left
SequentialMatch(first, second) ==
    LET ra == RunAlone(probe.w[first], probe.fs0)
        rb == RunAlone(probe.w[second], ra.fs)
    IN  /\ probe.w[first].ret = ra.ret
        /\ probe.w[second].ret = rb.ret
        /\ fs = rb.fs

-----------------------------------------------------------------------------
(* Collisions between the inputs of one batch *)

\* C26: within one batch, distinct input paths never derive the same
\* predicted output path, so no output written for one input is overwritten
\* by the processing of another input of the same batch.
C26_NoIntraBatchCollision ==
    /\ \A i, j \in 1..Len(image_paths) :
          image_paths[i] # image_paths[j] =>
              PredictedPath(image_paths[i], output_folder, output_format)
                  # PredictedPath(image_paths[j], output_folder, output_format)
    /\ \A i, j \in 1..Len(outcomes) :
          (/\ i < j
           /\ outcomes[i].kind = "dispatched"
           /\ outcomes[j].kind = "dispatched"
           /\ outcomes[i].success
           /\ outcomes[i].input # outcomes[j].input) =>
              outcomes[j].wrote # outcomes[i].wrote

-----------------------------------------------------------------------------
(* convert_image: mode of the encoded image, error classification, sizes *)

\* C24: in convert_image the image handed to the encoder always has mode RGB,
\* except that it has mode RGBA when the source is RGBA and the target is
\* WebP; for target AVIF the encoded image never has an alpha channel,
\* whatever the source mode.
C24_EncodedMode ==
    ConvertSaved =>
        /\ probe.saved.mode =
              IF SourceMode = "RGBA" /\ Lower(probe.target_format) = "webp"
              THEN "RGBA"
              ELSE "RGB"
        /\ Lower(probe.target_format) = "avif" =>
              probe.saved.mode \notin AlphaModes

\* an RGBA source converted to AVIF reached the encoder as RGB
C24_Witness ==
    /\ ConvertSaved
    /\ SourceMode = "RGBA"
    /\ Lower(probe.target_format) = "avif"
    /\ probe.saved.mode = "RGB"
    /\ probe.env.save = "ok"

\* C27: convert_image returns the missing-AVIF-encoder failure only when the
\* AVIF encoder is unavailable; an AVIF save that fails for another reason,
\* such as an unwritable output path, is reported with the generic 'Error: '
\* message.
C27_PluginMessageOnlyWithoutEncoder ==
    (ConvertSaved /\ Lower(probe.target_format) = "avif") =>
        /\ probe.ret.message = AvifPluginMessage => probe.env.save = "no_encoder"
        /\ probe.env.save \in {"open_denied", "encode_error"} =>
              probe.ret.message[1] = "Error: "

\* C28: compress_image and convert_image read the original file size before
\* the output file is written: when the output path is the input path, the
\* reported reduction compares the size the input had before the write with
\* the size of the file after the write.
C28_InPlaceReduction ==
    (probe.pc = "returned" /\ probe.ret.success
        /\ probe.saved.path = probe.input) =>
        LET before == probe.fsBefore[probe.input].size
            after == fs[probe.input].size
            r == probe.ret.reduction
        IN  /\ r.den > 0
            /\ r.num * before = (before - after) * 100 * r.den

\* an in-place compression from 2 bytes to 1 byte reports 50
C28_Witness ==
    /\ probe.pc = "returned"
    /\ probe.op = "compress"
    /\ probe.ret.success
    /\ probe.saved.path = probe.input
    /\ fs[probe.input].size = 1
    /\ probe.ret.reduction.num = 50 * probe.ret.reduction.den

-----------------------------------------------------------------------------
(* ConflictDialog *)

\* C29: constructing a ConflictDialog from a non-empty record list returned
\* by check_conflicts completes without raising and renders one item per
\* record, in order, showing output_filename, format_modified_date of
\* existing_modified and format_file_size of existing_size; get_strategy then
\* returns one of 'replace', 'skip', 'auto_rename', and 'replace' when nothing
\* was selected.
C29_DialogConstructs ==
    (probe.pc \in {"raised", "shown", "answered"} /\ probe.conflicts # <<>>) =>
        /\ probe.pc # "raised"
        /\ Len(probe.items) = Len(probe.conflicts)
        /\ \A k \in 1..Len(probe.conflicts) :
              /\ probe.items[k].filename = probe.conflicts[k].output_filename
              /\ probe.items[k].modified =
                    FormatModifiedDate(probe.conflicts[k].existing_modified)
              /\ probe.items[k].size =
                    FormatFileSize(probe.conflicts[k].existing_size)
        /\ probe.pc = "answered" =>
              /\ probe.strategy \in {"replace", "skip", "auto_rename"}
              /\ probe.checked = "replace" => probe.strategy = "replace"

-----------------------------------------------------------------------------
(* QualityPresetsWidget *)

\* C30: in QualityPresetsWidget, after any sequence of slider changes, preset
\* clicks and Custom clicks (no animation still running), get_preset() is
\* 'Web', 'Balanced' or 'High' exactly when get_value() is 75, 85 or 95, and
\* 'Custom' exactly when the value is none of these; get_value() stays in
\* [1,100].
C30_PresetMatchesValue ==
    (probe.pc = "widget" /\ ~probe.animation.running) =>
        /\ probe.value \in 1..100
        /\ probe.current_preset = "Web" <=> probe.value = 75
        /\ probe.current_preset = "Balanced" <=> probe.value = 85
        /\ probe.current_preset = "High" <=> probe.value = 95
        /\ probe.current_preset = "Custom" <=> probe.value \notin {75, 85, 95}

-----------------------------------------------------------------------------
(* format_file_size and validate_quality *)

\* number is value * 10 / unit rounded to the nearest integer
NearestTenth(number, value, unit) ==
    LET d == number - (value \div unit) * 10
        r == value % unit
        diff == IF d * unit > 10 * r THEN d * unit - 10 * r ELSE 10 * r - d * unit
    IN  d \in 0..10 /\ diff * 2 <= unit

\* the unit the claim assigns to a size
UnitOf(size_bytes) ==
    IF size_bytes < 1024 THEN "B"
    ELSE IF size_bytes < 1024 * 1024 THEN "KB"
    ELSE IF size_bytes < 1024 * 1024 * 1024 THEN "MB"
    ELSE "GB"

\* C23: format_file_size picks its unit by threshold: below 1024 the integer
\* with ' B' and no decimals, below 1024^2 size/1024 with ' KB', below 1024^3
\* size/1024^2 with ' MB', otherwise size/1024^3 with ' GB'; 1024, 1024^2 and
\* 1024^3 fall in the larger unit.
C23_UnitByThreshold ==
    (probe.pc = "result" /\ probe.fn = "format_file_size") =>
        LET size_bytes == probe.arg
            result == probe.result
            number == result.whole * 10 + result.decimals[1]
        IN  /\ result.unit = UnitOf(size_bytes)
            /\ result.unit = "B" =>
                  result.whole = size_bytes /\ result.decimals = <<>>
            /\ result.unit # "B" =>
                  /\ Len(result.decimals) = 1
                  /\ result.decimals[1] \in 0..9
            /\ result.unit = "KB" => NearestTenth(number, size_bytes, 1024)
            /\ result.unit = "MB" => NearestTenth(number, size_bytes, 1024 * 1024)
            /\ result.unit = "GB" =>
                  NearestTenth(number, size_bytes, 1024 * 1024 * 1024)

\* 1024 bytes are "1.0 KB"
C23_Witness ==
    /\ probe.pc = "result"
    /\ probe.fn = "format_file_size"
    /\ probe.arg = 1024
    /\ probe.result = [whole |-> 1, decimals |-> <<0>>, unit |-> "KB"]

\* C25: validate_quality(q) returns max(1, min(100, int(q))) for every numeric
\* q: the result is always an integer in [1,100], it is q for every integer q
\* in [1,100], and validate_quality(validate_quality(q)) = validate_quality(q).
C25_ValidateQuality ==
    (probe.pc = "result" /\ probe.fn = "validate_quality") =>
        /\ ~probe.result.raised
        /\ probe.result.value \in 1..100
        /\ (probe.arg.kind = "int" /\ probe.arg.n \in 1..100) =>
              probe.result.value = probe.arg.n
        /\ probe.again = probe.result

=============================================================================
